---- MODULE Spec2Model ----
(***************************************************************************)
(* Session coordinator of the PDF redaction front end                      *)
(* (frontend/src/App.tsx and the components that gate its handlers).       *)
(*                                                                         *)
(* Every step of the model is one task of the single-threaded event loop:  *)
(* a UI handler up to its first await, or the continuation of a handler    *)
(* after an awaited request has returned, up to its next await.  State     *)
(* read through a closure (files, words, showPasswordModal, pendingFileId) *)
(* is the value captured when the handler was invoked; state written with  *)
(* a functional update (setFiles(prev => ...)) applies to the current      *)
(* value.                                                                  *)
(***************************************************************************)
EXTENDS Integers, Sequences, FiniteSets, TLC

\* ---------------------------------------------------------------- bounds
MaxBatch == 2      \* files dropped in one selection
MaxIds == 2        \* files submitted over the whole session
MaxRuns == 2       \* batch runs started over the whole session
MaxDecrypts == 1   \* interactive decrypt requests in flight at once
MaxWords == 1      \* length of the redaction-term list
MaxCancels == 1    \* cancel requests made over the whole session
MaxIdsWide == 3      \* files submitted, when only the Encryption Resolver runs
MaxDecryptsWide == 2 \* interactive decrypt requests in flight, in the same case

Ids == 1..MaxIdsWide
NoId == 0

\* const [clientId] = useState(() => Math.random()...): fixed for the session
clientId == "client"
Terms == {"name"}
DefaultWords == <<"name">>

\* message: '' or some text (no handler branches on its content)
NoText == ""
Text == "text"

Statuses == {"pending", "encrypted", "decrypted", "uploading", "processing", "done", "error"}
GlobalStatuses == {"idle", "processing", "done", "cancelling"}

VARIABLES
    files,              \* registry: sequence of FileItem
    words,              \* redaction terms
    configWords,        \* default terms from the configuration store
    globalStatus,
    progress,
    message,
    batchProgress,      \* 0 = '', i = "Processing file i of n"
    lastSaveDir,        \* TRUE when a save directory is recorded
    showPasswordModal,
    pendingFileId,      \* NoId = null
    passwordError,      \* TRUE when a failure message is set
    decrypting,
    runs,               \* handleRedact invocations suspended at their fetch
    sels,               \* handleFilesSelect invocations suspended at a fetch
    decs,               \* interactive handleDecryptSubmit invocations in flight
    timers,             \* ids whose delayed prompt (setTimeout 300) is scheduled
    cancelInFlight,     \* cancel requests posted and not yet returned
    markers,            \* cancellation markers the service has yet to push
    nextId,             \* ids handed out so far + 1
    nStarted,           \* batch runs started so far
    nCancels,           \* cancel requests made so far
    previewIndex,       \* position of the previewed record, from 0
    chan,               \* the progress channel's WebSocket: state, reconnect timer, client id
    last                \* the task that produced this state, when it is one the properties name

vars == <<files, words, configWords, globalStatus, progress, message, batchProgress,
          lastSaveDir, showPasswordModal, pendingFileId, passwordError, decrypting,
          runs, sels, decs, timers, cancelInFlight, markers, nextId, nStarted, nCancels,
          previewIndex, chan, last>>

uiVars == <<showPasswordModal, pendingFileId, passwordError, decrypting>>
procVars == <<runs, sels, decs, timers, cancelInFlight, markers>>

\* ---------------------------------------------------------------- helpers
Min(S) == CHOOSE x \in S : \A y \in S : x <= y

Ev(op, id, run) ==
    [op |-> op, id |-> id, run |-> run, fin |-> FALSE, ok |-> TRUE, cancelled |-> FALSE]
Other == Ev("other", NoId, 0)

RemoveAt(s, k) == [j \in 1..(Len(s) - 1) |-> IF j < k THEN s[j] ELSE s[j + 1]]

\* { id, file, status: 'pending' }; password, tempDir/outputFilename and error
\* unset; dec: the file has been replaced by its decrypted copy; chk: what the
\* encryption check of this record answered ("none" while it has not)
NewItem(id) ==
    [id |-> id, status |-> "pending", pw |-> FALSE, out |-> FALSE, err |-> FALSE,
     dec |-> FALSE, chk |-> "none"]

\* setFiles(prev => prev.map(f => f.id === id ? { ...f, status } : f))
SetStatus(fs, id, st) ==
    [k \in DOMAIN fs |-> IF fs[k].id = id THEN [fs[k] EXCEPT !.status = st] ELSE fs[k]]

\* { ...f, status: 'error', error: ... }
SetError(fs, id) ==
    [k \in DOMAIN fs |-> IF fs[k].id = id
                         THEN [fs[k] EXCEPT !.status = "error", !.err = TRUE] ELSE fs[k]]

\* an update that marks the record done without recording where its output is
SetDone_noOutput(fs, id) ==
    [k \in DOMAIN fs |-> IF fs[k].id = id THEN [fs[k] EXCEPT !.status = "done"] ELSE fs[k]]

\* { ...f, status: 'done', tempDir, outputFilename }
SetDone(fs, id) ==
    [k \in DOMAIN fs |-> IF fs[k].id = id
                         THEN [fs[k] EXCEPT !.status = "done", !.out = TRUE] ELSE fs[k]]

\* an update that marks every record decrypted, not only the one with this id
SetDecrypted_everyRecord(fs, id) ==
    [k \in DOMAIN fs |-> [fs[k] EXCEPT !.status = "decrypted", !.pw = TRUE, !.dec = TRUE]]

\* { ...f, file: decryptedFile, status: 'decrypted', password }
SetDecrypted(fs, id) ==
    [k \in DOMAIN fs |-> IF fs[k].id = id
                         THEN [fs[k] EXCEPT !.status = "decrypted", !.pw = TRUE, !.dec = TRUE]
                         ELSE fs[k]]

\* the answer of the check, noted on the record it was made for
NoteCheck(fs, id, res) ==
    [k \in DOMAIN fs |-> IF fs[k].id = id THEN [fs[k] EXCEPT !.chk = res] ELSE fs[k]]

HasId(fs, id) == \E k \in DOMAIN fs : fs[k].id = id
ItemOf(fs, id) == fs[CHOOSE k \in DOMAIN fs : fs[k].id = id]
AnyEncrypted(fs) == \E k \in DOMAIN fs : fs[k].status = "encrypted"

\* ---------------------------------------------------------------- render
isLocked == globalStatus = "processing" \/ globalStatus = "cancelling"

ActionAreaStatus ==
    IF globalStatus = "processing" THEN "processing"
    ELSE IF globalStatus = "done" THEN "done" ELSE "idle"

\* canStart without the test for encrypted records
canStart_noEncryptedTest == Len(files) > 0 /\ Len(words) > 0

canStart == Len(files) > 0 /\ Len(words) > 0 /\ ~AnyEncrypted(files)

\* ---------------------------------------------------------------- Init
Init ==
    /\ files = <<>>
    /\ words = DefaultWords            \* the config fetch issued at mount has returned:
    /\ configWords = DefaultWords      \* setConfigWords(data.words); setWords(data.words)
    /\ globalStatus = "idle"
    /\ progress = 0
    /\ message = NoText
    /\ batchProgress = 0
    /\ lastSaveDir = FALSE
    /\ showPasswordModal = FALSE
    /\ pendingFileId = NoId
    /\ passwordError = FALSE
    /\ decrypting = FALSE
    /\ runs = <<>>
    /\ sels = <<>>
    /\ decs = <<>>
    /\ timers = {}
    /\ cancelInFlight = 0
    /\ markers = 0
    /\ nextId = 1
    /\ nStarted = 0
    /\ nCancels = 0
    /\ previewIndex = 0
    /\ chan = [st |-> "open", timer |-> FALSE, id |-> clientId]   \* connect() at mount
    /\ last = Other

\* the shape of the state: FileItem, the status enumerations, the suspended handlers
TypeOK ==
    /\ \A k \in DOMAIN files :
          /\ files[k].id \in Ids
          /\ files[k].status \in Statuses
          /\ files[k].chk \in {"none", "plain", "enc", "auto", "fail"}
    /\ \A a, b \in DOMAIN files : a < b => files[a].id < files[b].id
    /\ globalStatus \in GlobalStatuses
    /\ pendingFileId \in Ids \cup {NoId}
    /\ progress \in {0} \cup {100}
    /\ message \in {NoText, Text}
    /\ Len(words) <= MaxWords
    /\ \A r \in DOMAIN runs : runs[r].i \in DOMAIN runs[r].snap
    /\ \A s \in DOMAIN sels : sels[s].k \in DOMAIN sels[s].items
    /\ timers \subseteq Ids
    /\ chan.st \in {"open", "closing", "closed"}
    /\ chan.timer \in BOOLEAN
    /\ previewIndex \in Nat

\* ---------------------------------------------------------------- configuration and term list
onAddWord(w) ==
    /\ ~isLocked
    /\ Len(words) < MaxWords
    /\ words' = Append(words, w)
    /\ last' = Other
    /\ UNCHANGED <<files, configWords, globalStatus, progress, message, batchProgress,
                   lastSaveDir, uiVars, procVars, nextId, nStarted, nCancels>>
    /\ UNCHANGED <<chan, previewIndex>>

onRemoveWord(index) ==
    /\ ~isLocked
    /\ index \in 1..Len(words)
    /\ words' = RemoveAt(words, index)
    /\ last' = Other
    /\ UNCHANGED <<files, configWords, globalStatus, progress, message, batchProgress,
                   lastSaveDir, uiVars, procVars, nextId, nStarted, nCancels>>
    /\ UNCHANGED <<chan, previewIndex>>

onClearWords ==
    /\ ~isLocked
    /\ Len(words) > 0
    /\ words' = <<>>
    /\ last' = Other
    /\ UNCHANGED <<files, configWords, globalStatus, progress, message, batchProgress,
                   lastSaveDir, uiVars, procVars, nextId, nStarted, nCancels>>
    /\ UNCHANGED <<chan, previewIndex>>

\* ---------------------------------------------------------------- Encryption Resolver
\* a loop that ends after the check it has just made
AdvanceSel_endLoop(ss, s) == RemoveAt(ss, s)

\* position of the next check of a selection, or the end of its loop
AdvanceSel(ss, s) ==
    IF ss[s].k < Len(ss[s].items)
    THEN [ss EXCEPT ![s].k = @ + 1, ![s].pc = "check"]
    ELSE RemoveAt(ss, s)

\* handleFilesSelect up to the fetch of the first checkEncryption
handleFilesSelect(n) ==
    /\ ~isLocked                       \* FileUpload: dropzone disabled
    /\ Len(files) = 0                  \* FileUpload: dropzone rendered only when empty
    /\ LET items == [j \in 1..n |-> nextId + j - 1] IN
        /\ files' = files \o [j \in 1..n |-> NewItem(items[j])]
        /\ sels' = Append(sels, [items |-> items, k |-> 1, pc |-> "check",
                                 modal |-> showPasswordModal, pend |-> pendingFileId])
    /\ globalStatus' = "idle"
    /\ progress' = 0
    /\ message' = NoText
    /\ words' = IF Len(words) = 0 /\ Len(configWords) > 0 THEN configWords ELSE words
    /\ nextId' = nextId + n
    /\ last' = Other
    /\ UNCHANGED <<configWords, batchProgress, lastSaveDir, uiVars, runs, decs, timers,
                   cancelInFlight, markers, nStarted, nCancels>>
    /\ UNCHANGED <<chan, previewIndex>>

\* checkEncryption after its fetch has returned; res is what the service answered
checkEncryption(s, res) ==
    /\ s \in DOMAIN sels
    /\ sels[s].pc = "check"
    /\ LET sel == sels[s]
           id == sel.items[sel.k] IN
        /\ last' = Other
        /\ CASE res = "plain" ->
                  /\ files' = SetStatus(NoteCheck(files, id, res), id, "pending")
                  /\ sels' = AdvanceSel(sels, s)
                  /\ UNCHANGED uiVars
             [] res = "enc" ->
                  /\ files' = SetStatus(NoteCheck(files, id, res), id, "encrypted")
                  /\ sels' = AdvanceSel(sels, s)
                  /\ IF ~sel.modal /\ sel.pend = NoId
                     THEN /\ pendingFileId' = id
                          /\ passwordError' = FALSE
                          /\ showPasswordModal' = TRUE
                          /\ UNCHANGED decrypting
                     ELSE UNCHANGED uiVars
             [] res = "auto" ->
                  \* handleDecryptSubmit(data.auto_password, id, file) up to its fetch
                  /\ decrypting' = TRUE
                  /\ passwordError' = FALSE
                  /\ sels' = [sels EXCEPT ![s].pc = "decrypt"]
                  /\ files' = NoteCheck(files, id, res)
                  /\ UNCHANGED <<showPasswordModal, pendingFileId>>
             [] res = "fail" ->
                  /\ files' = SetError(NoteCheck(files, id, res), id)
                  /\ sels' = AdvanceSel(sels, s)
                  /\ UNCHANGED uiVars
    /\ UNCHANGED <<words, configWords, globalStatus, progress, message, batchProgress,
                   lastSaveDir, runs, decs, timers, cancelInFlight, markers, nextId,
                   nStarted, nCancels>>
    /\ UNCHANGED <<chan, previewIndex>>

\* a success branch that never stores the decrypted file
autoDecryptReturn_dropResult(s, ok) ==
    /\ s \in DOMAIN sels
    /\ sels[s].pc = "decrypt"
    /\ files' = files
    /\ last' = [Ev("autoDecryptReturn", sels[s].items[sels[s].k], 0) EXCEPT !.ok = ok]
    /\ decrypting' = FALSE
    /\ sels' = AdvanceSel(sels, s)
    /\ UNCHANGED <<words, configWords, globalStatus, progress, message, batchProgress,
                   lastSaveDir, showPasswordModal, pendingFileId, passwordError,
                   runs, decs, timers, cancelInFlight, markers, nextId, nStarted, nCancels>>
    /\ UNCHANGED <<chan, previewIndex>>

\* handleDecryptSubmit with idOverride, after the decrypt fetch has returned
autoDecryptReturn(s, ok) ==
    /\ s \in DOMAIN sels
    /\ sels[s].pc = "decrypt"
    /\ LET id == sels[s].items[sels[s].k] IN
        /\ files' = IF ok THEN SetDecrypted(files, id) ELSE files
        /\ last' = [Ev("autoDecryptReturn", id, 0) EXCEPT !.ok = ok]
    /\ decrypting' = FALSE
    /\ sels' = AdvanceSel(sels, s)
    /\ UNCHANGED <<words, configWords, globalStatus, progress, message, batchProgress,
                   lastSaveDir, showPasswordModal, pendingFileId, passwordError,
                   runs, decs, timers, cancelInFlight, markers, nextId, nStarted, nCancels>>
    /\ UNCHANGED <<chan, previewIndex>>

\* files.find(f => f.status === 'encrypted' && f.id !== id)
nextEncrypted(fs, id) ==
    LET S == {k \in DOMAIN fs : fs[k].status = "encrypted" /\ fs[k].id # id} IN
    IF S = {} THEN NoId ELSE fs[Min(S)].id

\* PasswordModal onSubmit: handleDecryptSubmit(pwd) up to its fetch
handleDecryptSubmit ==
    /\ showPasswordModal
    /\ ~decrypting                     \* PasswordModal: submit disabled while decrypting
    /\ IF pendingFileId = NoId \/ ~HasId(files, pendingFileId)
       THEN /\ last' = Other
            /\ UNCHANGED <<decs, decrypting, passwordError>>
       ELSE /\ decrypting' = TRUE
            /\ passwordError' = FALSE
            /\ decs' = Append(decs, [id |-> pendingFileId,
                                     next |-> nextEncrypted(files, pendingFileId)])
            /\ last' = Other
    /\ UNCHANGED <<files, words, configWords, globalStatus, progress, message,
                   batchProgress, lastSaveDir, showPasswordModal, pendingFileId,
                   runs, sels, timers, cancelInFlight, markers, nextId, nStarted, nCancels>>
    /\ UNCHANGED <<chan, previewIndex>>

\* a success branch that leaves the prompt and the outstanding request as they are
decryptReturn_keepPromptOpen(d, ok) ==
    /\ d \in DOMAIN decs
    /\ LET id == decs[d].id
           nxt == decs[d].next IN
        /\ last' = [Ev("decryptReturn", id, 0) EXCEPT !.ok = ok]
        /\ IF ok
           THEN /\ files' = SetDecrypted(files, id)
                /\ passwordError' = FALSE
                /\ timers' = IF nxt # NoId THEN timers \cup {nxt} ELSE timers
                /\ UNCHANGED <<showPasswordModal, pendingFileId>>
           ELSE /\ passwordError' = TRUE
                /\ UNCHANGED <<files, showPasswordModal, pendingFileId, timers>>
    /\ decrypting' = FALSE
    /\ decs' = RemoveAt(decs, d)
    /\ UNCHANGED <<words, configWords, globalStatus, progress, message, batchProgress,
                   lastSaveDir, runs, sels, cancelInFlight, markers, nextId, nStarted, nCancels>>
    /\ UNCHANGED <<chan, previewIndex>>

\* a failure branch that gives up the request: the prompt is closed
decryptReturn_closeOnFailure(d, ok) ==
    /\ d \in DOMAIN decs
    /\ LET id == decs[d].id
           nxt == decs[d].next IN
        /\ last' = [Ev("decryptReturn", id, 0) EXCEPT !.ok = ok]
        /\ IF ok
           THEN /\ files' = SetDecrypted(files, id)
                /\ showPasswordModal' = FALSE
                /\ pendingFileId' = NoId
                /\ passwordError' = FALSE
                /\ timers' = IF nxt # NoId THEN timers \cup {nxt} ELSE timers
           ELSE /\ passwordError' = TRUE
                /\ showPasswordModal' = FALSE
                /\ pendingFileId' = NoId
                /\ UNCHANGED <<files, timers>>
    /\ decrypting' = FALSE
    /\ decs' = RemoveAt(decs, d)
    /\ UNCHANGED <<words, configWords, globalStatus, progress, message, batchProgress,
                   lastSaveDir, runs, sels, cancelInFlight, markers, nextId, nStarted, nCancels>>
    /\ UNCHANGED <<chan, previewIndex>>

\* handleDecryptSubmit without idOverride, after the decrypt fetch has returned
decryptReturn(d, ok) ==
    /\ d \in DOMAIN decs
    /\ LET id == decs[d].id
           nxt == decs[d].next IN
        /\ last' = [Ev("decryptReturn", id, 0) EXCEPT !.ok = ok]
        /\ IF ok
           THEN /\ files' = SetDecrypted(files, id)
                /\ showPasswordModal' = FALSE
                /\ pendingFileId' = NoId
                /\ passwordError' = FALSE
                /\ timers' = IF nxt # NoId THEN timers \cup {nxt} ELSE timers
           ELSE /\ passwordError' = TRUE
                /\ UNCHANGED <<files, showPasswordModal, pendingFileId, timers>>
    /\ decrypting' = FALSE
    /\ decs' = RemoveAt(decs, d)
    /\ UNCHANGED <<words, configWords, globalStatus, progress, message, batchProgress,
                   lastSaveDir, runs, sels, cancelInFlight, markers, nextId, nStarted, nCancels>>
    /\ UNCHANGED <<chan, previewIndex>>

\* setTimeout(() => { setPendingFileId(nextEncrypted.id); ... }, 300)
nextPromptTimer(id) ==
    /\ id \in timers
    /\ timers' = timers \ {id}
    /\ pendingFileId' = id
    /\ showPasswordModal' = TRUE
    /\ last' = Other
    /\ UNCHANGED <<files, words, configWords, globalStatus, progress, message,
                   batchProgress, lastSaveDir, passwordError, decrypting, runs, sels, decs,
                   cancelInFlight, markers, nextId, nStarted, nCancels>>
    /\ UNCHANGED <<chan, previewIndex>>

\* a dismissal that hides the prompt and keeps the pending file id
onClose_keepPendingFileId ==
    /\ showPasswordModal
    /\ showPasswordModal' = FALSE
    /\ passwordError' = FALSE
    /\ last' = Other
    /\ UNCHANGED <<files, words, configWords, globalStatus, progress, message,
                   batchProgress, lastSaveDir, pendingFileId, decrypting, procVars, nextId,
                   nStarted, nCancels>>
    /\ UNCHANGED <<chan, previewIndex>>

\* PasswordModal onClose
onClose ==
    /\ showPasswordModal
    /\ showPasswordModal' = FALSE
    /\ pendingFileId' = NoId
    /\ passwordError' = FALSE
    /\ last' = Other
    /\ UNCHANGED <<files, words, configWords, globalStatus, progress, message,
                   batchProgress, lastSaveDir, decrypting, procVars, nextId, nStarted,
                   nCancels>>
    /\ UNCHANGED <<chan, previewIndex>>

\* ---------------------------------------------------------------- Batch Controller
\* a loop whose index falls back to the first other record instead of advancing
NextEligible_restart(snap, i) ==
    LET S == {j \in 1..Len(snap) : j # i /\ snap[j].status # "error"} IN
    IF S = {} THEN 0 ELSE Min(S)

\* for (let i ...; i++) { if (fileItem.status === 'error') continue; ...
\* position after i of the next record of the captured registry that the loop
\* does not skip, 0 when the loop ends
NextEligible(snap, i) ==
    LET S == {j \in (i + 1)..Len(snap) : snap[j].status # "error"} IN
    IF S = {} THEN 0 ELSE Min(S)

\* the captured registry of a run: ids and statuses when handleRedact was invoked
Snapshot(fs) == [k \in DOMAIN fs |-> [id |-> fs[k].id, status |-> fs[k].status]]

\* handleRedact up to the fetch of the first process request
\* a request body that takes the term list as it is when the request is built
formData_currentWords(id, ws, batchId) ==
    [file |-> id, words |-> words, client_id |-> clientId, batch_id |-> batchId]

\* formData of a process request: file, words.join(','), client_id, batch_id,
\* with words and batchId as the invocation of handleRedact holds them
formData(id, ws, batchId) ==
    [file |-> id, words |-> ws, client_id |-> clientId, batch_id |-> batchId]

handleRedact ==
    IF Len(files) = 0 \/ Len(words) = 0
    THEN /\ last' = [Ev("onStart", NoId, 0) EXCEPT !.ok = FALSE]
         /\ UNCHANGED <<files, globalStatus, message, batchProgress, lastSaveDir, runs,
                        nStarted>>
    ELSE LET snap == Snapshot(files)
             j == NextEligible(snap, 0) IN
         /\ nStarted' = nStarted + 1
         /\ lastSaveDir' = FALSE
         /\ IF j = 0
            THEN /\ globalStatus' = "done"
                 /\ message' = Text
                 /\ batchProgress' = 0
                 /\ last' = [Ev("onStart", NoId, nStarted + 1) EXCEPT !.fin = TRUE]
                 /\ UNCHANGED <<files, runs>>
            ELSE /\ globalStatus' = "processing"
                 /\ files' = SetStatus(files, snap[j].id, "uploading")
                 /\ batchProgress' = j
                 /\ message' = Text
                 /\ runs' = Append(runs, [no |-> nStarted + 1, snap |-> snap, words |-> words,
                                          i |-> j, dir |-> FALSE, issued |-> <<snap[j].id>>,
                                          ret |-> 0, cancelled |-> FALSE,
                                          client |-> clientId,
                                          reqs |-> <<formData(snap[j].id, words,
                                                              nStarted + 1)>>])
                 /\ last' = Ev("onStart", snap[j].id, nStarted + 1)

\* ActionArea: the Start button of the idle view, disabled unless canStart
onStart ==
    /\ ActionAreaStatus = "idle"
    /\ IF canStart
       THEN /\ nStarted < MaxRuns
            /\ handleRedact
       ELSE /\ last' = [Ev("onStart", NoId, 0) EXCEPT !.ok = FALSE]
            /\ UNCHANGED <<files, globalStatus, message, batchProgress, lastSaveDir, runs,
                           nStarted>>
    /\ UNCHANGED <<words, configWords, progress, uiVars, sels, decs, timers,
                   cancelInFlight, markers, nextId, nCancels>>
    /\ UNCHANGED <<chan, previewIndex>>

\* an epilogue that leaves globalStatus alone when a cancel was requested during
\* the last request
RedactStep_skipDoneWhenCancelled(r, ok, saveDir, j) ==
    /\ LET run == runs[r]
           id == run.snap[run.i].id
           fs1 == IF ok THEN SetDone(files, id) ELSE SetError(files, id)
           dir1 == run.dir \/ (ok /\ saveDir) IN
        IF j # 0
        THEN /\ files' = SetStatus(fs1, run.snap[j].id, "uploading")
             /\ batchProgress' = j
             /\ message' = Text
             /\ runs' = [runs EXCEPT ![r].i = j, ![r].dir = dir1,
                                     ![r].issued = Append(@, run.snap[j].id),
                                     ![r].reqs = Append(@, formData(run.snap[j].id,
                                                                    run.words, run.no)),
                                     ![r].ret = @ + 1, ![r].cancelled = FALSE]
             /\ last' = [Ev("redactReturn", id, run.no) EXCEPT !.ok = ok,
                                                               !.cancelled = run.cancelled]
             /\ UNCHANGED <<globalStatus, lastSaveDir>>
        ELSE /\ files' = fs1
             /\ lastSaveDir' = IF dir1 THEN TRUE ELSE lastSaveDir
             /\ globalStatus' = IF run.cancelled THEN globalStatus ELSE "done"
             /\ message' = Text
             /\ batchProgress' = 0
             /\ runs' = RemoveAt(runs, r)
             /\ last' = [Ev("redactReturn", id, run.no) EXCEPT !.ok = ok, !.fin = TRUE,
                                                               !.cancelled = run.cancelled]
    /\ UNCHANGED <<words, configWords, progress, uiVars, sels, decs, timers,
                   cancelInFlight, markers, nextId, nStarted, nCancels>>
    /\ UNCHANGED <<chan, previewIndex>>

\* handleRedact after the process request of run r has returned with outcome ok:
\* record the outcome, then go on with position j of the captured registry
\* (issue its request) or, when j = 0, leave the loop and finish the run
RedactStep(r, ok, saveDir, j) ==
    /\ LET run == runs[r]
           id == run.snap[run.i].id
           fs1 == IF ok THEN SetDone(files, id) ELSE SetError(files, id)
           dir1 == run.dir \/ (ok /\ saveDir) IN
        IF j # 0
        THEN /\ files' = SetStatus(fs1, run.snap[j].id, "uploading")
             /\ batchProgress' = j
             /\ message' = Text
             /\ runs' = [runs EXCEPT ![r].i = j, ![r].dir = dir1,
                                     ![r].issued = Append(@, run.snap[j].id),
                                     ![r].reqs = Append(@, formData(run.snap[j].id,
                                                                    run.words, run.no)),
                                     ![r].ret = @ + 1, ![r].cancelled = FALSE]
             /\ last' = [Ev("redactReturn", id, run.no) EXCEPT !.ok = ok,
                                                               !.cancelled = run.cancelled]
             /\ UNCHANGED <<globalStatus, lastSaveDir>>
        ELSE /\ files' = fs1
             /\ lastSaveDir' = IF dir1 THEN TRUE ELSE lastSaveDir
             /\ globalStatus' = "done"
             /\ message' = Text
             /\ batchProgress' = 0
             /\ runs' = RemoveAt(runs, r)
             /\ last' = [Ev("redactReturn", id, run.no) EXCEPT !.ok = ok, !.fin = TRUE,
                                                               !.cancelled = run.cancelled]
    /\ UNCHANGED <<words, configWords, progress, uiVars, sels, decs, timers,
                   cancelInFlight, markers, nextId, nStarted, nCancels>>
    /\ UNCHANGED <<chan, previewIndex>>

\* a catch block that leaves the loop: the first failure ends the run
redactReturn_abortOnFailure(r, ok, saveDir) ==
    /\ r \in DOMAIN runs
    /\ RedactStep(r, ok, saveDir, IF ok THEN NextEligible(runs[r].snap, runs[r].i) ELSE 0)

\* try { await fetch(...); ... } catch (e) { ... }  followed by the loop's i++
redactReturn(r, ok, saveDir) ==
    /\ r \in DOMAIN runs
    /\ RedactStep(r, ok, saveDir, NextEligible(runs[r].snap, runs[r].i))

\* a cancel that also gives up the records whose request is in flight
handleCancel_dropInFlight ==
    /\ ActionAreaStatus = "processing"
    /\ globalStatus = "processing"
    /\ nCancels < MaxCancels
    /\ nCancels' = nCancels + 1
    /\ globalStatus' = "cancelling"
    /\ message' = Text
    /\ batchProgress' = 0
    /\ cancelInFlight' = cancelInFlight + 1
    /\ runs' = [r \in DOMAIN runs |-> [runs[r] EXCEPT !.cancelled = TRUE]]
    /\ files' = [k \in DOMAIN files |->
                    IF files[k].status = "uploading"
                    THEN [files[k] EXCEPT !.status = "pending"] ELSE files[k]]
    /\ last' = Other
    /\ UNCHANGED <<words, configWords, progress, lastSaveDir, uiVars, sels, decs,
                   timers, markers, nextId, nStarted>>
    /\ UNCHANGED <<chan, previewIndex>>

\* handleCancel up to the fetch of the cancel request
handleCancel ==
    /\ ActionAreaStatus = "processing"     \* Cancel button of the processing view
    /\ globalStatus = "processing"
    /\ nCancels < MaxCancels
    /\ nCancels' = nCancels + 1
    /\ globalStatus' = "cancelling"
    /\ message' = Text
    /\ batchProgress' = 0
    /\ cancelInFlight' = cancelInFlight + 1
    /\ runs' = [r \in DOMAIN runs |-> [runs[r] EXCEPT !.cancelled = TRUE]]
    /\ last' = Other
    /\ UNCHANGED <<files, words, configWords, progress, lastSaveDir, uiVars, sels, decs,
                   timers, markers, nextId, nStarted>>
    /\ UNCHANGED <<chan, previewIndex>>

\* handleCancel after its fetch: resolved (the service then pushes the
\* cancellation marker) or rejected (catch: setGlobalStatus('idle'))
cancelReturn(ok) ==
    /\ cancelInFlight > 0
    /\ cancelInFlight' = cancelInFlight - 1
    /\ IF ok
       THEN /\ markers' = markers + 1
            /\ UNCHANGED globalStatus
       ELSE /\ globalStatus' = "idle"
            /\ UNCHANGED markers
    /\ last' = Other
    /\ UNCHANGED <<files, words, configWords, progress, message, batchProgress,
                   lastSaveDir, uiVars, runs, sels, decs, timers, nextId, nStarted,
                   nCancels>>
    /\ UNCHANGED <<chan, previewIndex>>

\* a marker branch without its return: the marker is then applied as an
\* ordinary percentage/message event
wsCancelled_fallThrough ==
    /\ chan.st # "closed"
    /\ markers > 0
    /\ markers' = markers - 1
    /\ globalStatus' = "idle"
    /\ progress' = 100
    /\ message' = Text
    /\ last' = Ev("wsCancelled", NoId, 0)
    /\ UNCHANGED <<files, words, configWords, batchProgress, lastSaveDir, uiVars, runs,
                   sels, decs, timers, cancelInFlight, nextId, nStarted, nCancels>>
    /\ UNCHANGED <<chan, previewIndex>>

\* ws.onmessage with data.message === "Cancelled"
wsCancelled ==
    /\ chan.st # "closed"
    /\ markers > 0
    /\ markers' = markers - 1
    /\ globalStatus' = "idle"
    /\ progress' = 0
    /\ message' = NoText
    /\ last' = Ev("wsCancelled", NoId, 0)
    /\ UNCHANGED <<files, words, configWords, batchProgress, lastSaveDir, uiVars, runs,
                   sels, decs, timers, cancelInFlight, nextId, nStarted, nCancels>>
    /\ UNCHANGED <<chan, previewIndex>>

\* a handler that takes percentage 100 as the end of the work: the records in
\* flight and globalStatus become done
wsProgress_doneAt100(p) ==
    /\ chan.st # "closed"
    /\ progress' = p
    /\ message' = Text
    /\ globalStatus' = IF p = 100 THEN "done" ELSE globalStatus
    /\ files' = [k \in DOMAIN files |->
                    IF p = 100 /\ files[k].status = "uploading"
                    THEN [files[k] EXCEPT !.status = "done"] ELSE files[k]]
    /\ last' = Ev("wsProgress", NoId, 0)
    /\ UNCHANGED <<words, configWords, batchProgress, lastSaveDir,
                   uiVars, procVars, nextId, nStarted, nCancels>>
    /\ UNCHANGED <<chan, previewIndex>>

\* ws.onmessage with a percentage/message event
wsProgress(p) ==
    /\ chan.st # "closed"
    /\ progress' = p
    /\ message' = Text
    /\ last' = Ev("wsProgress", NoId, 0)
    /\ UNCHANGED <<files, words, configWords, globalStatus, batchProgress, lastSaveDir,
                   uiVars, procVars, nextId, nStarted, nCancels>>
    /\ UNCHANGED <<chan, previewIndex>>

\* ActionArea: Start Over button of the done view
onRetry ==
    /\ ActionAreaStatus = "done"
    /\ globalStatus' = "idle"
    /\ last' = Other
    /\ UNCHANGED <<files, words, configWords, progress, message, batchProgress,
                   lastSaveDir, uiVars, procVars, nextId, nStarted, nCancels>>
    /\ UNCHANGED <<chan, previewIndex>>

\* FileUpload: the clear button, rendered when the registry is non-empty and not locked
onClearFiles ==
    /\ ~isLocked
    /\ Len(files) > 0
    /\ files' = <<>>
    /\ words' = configWords
    /\ globalStatus' = "idle"
    /\ progress' = 0
    /\ message' = NoText
    /\ batchProgress' = 0
    /\ last' = Other
    /\ UNCHANGED <<configWords, lastSaveDir, uiVars, procVars, nextId, nStarted, nCancels>>
    /\ UNCHANGED <<chan, previewIndex>>

\* ---------------------------------------------------------------- Output Assembler
\* ActionArea: Open Folder button of the done view; the reveal request is posted
\* with lastSaveDir and its result is not used
handleOpenFolder ==
    /\ ActionAreaStatus = "done"
    /\ last' = Ev("handleOpenFolder", NoId, 0)
    /\ UNCHANGED <<files, words, configWords, globalStatus, progress, message,
                   batchProgress, lastSaveDir, uiVars, procVars, nextId, nStarted, nCancels,
                   chan, previewIndex>>

\* ActionArea: Send via Email button of the done view, then EmailModal's submit:
\* handleSendEmail returns at once without a save directory, else posts the
\* request and reports its result in an alert
handleSendEmail ==
    /\ ActionAreaStatus = "done"
    /\ last' = [Ev("handleSendEmail", NoId, 0) EXCEPT !.ok = lastSaveDir]
    /\ UNCHANGED <<files, words, configWords, globalStatus, progress, message,
                   batchProgress, lastSaveDir, uiVars, procVars, nextId, nStarted, nCancels,
                   chan, previewIndex>>

\* ---------------------------------------------------------------- Progress Channel connection
\* ws.onerror: ws.close()
wsOnError ==
    /\ chan.st = "open"
    /\ chan' = [chan EXCEPT !.st = "closing"]
    /\ last' = Other
    /\ UNCHANGED <<files, words, configWords, globalStatus, progress, message,
                   batchProgress, lastSaveDir, uiVars, procVars, nextId, nStarted, nCancels,
                   previewIndex>>

\* ws.onclose: reconnectTimeout = setTimeout(connect, 3000)
wsOnClose ==
    /\ chan.st \in {"open", "closing"}
    /\ chan' = [chan EXCEPT !.st = "closed", !.timer = TRUE]
    /\ last' = Other
    /\ UNCHANGED <<files, words, configWords, globalStatus, progress, message,
                   batchProgress, lastSaveDir, uiVars, procVars, nextId, nStarted, nCancels,
                   previewIndex>>

\* a reconnect that opens the channel under an identifier of its own
connect_freshClientId ==
    /\ chan.timer
    /\ chan' = [st |-> "open", timer |-> FALSE, id |-> "fresh"]
    /\ last' = Ev("connect", NoId, 0)
    /\ UNCHANGED <<files, words, configWords, globalStatus, progress, message,
                   batchProgress, lastSaveDir, uiVars, procVars, nextId, nStarted, nCancels,
                   previewIndex>>

\* the reconnect timer fires: connect() opens new WebSocket(`${WS_URL}/ws/${clientId}`)
connect ==
    /\ chan.timer
    /\ chan' = [st |-> "open", timer |-> FALSE, id |-> clientId]
    /\ last' = Ev("connect", NoId, 0)
    /\ UNCHANGED <<files, words, configWords, globalStatus, progress, message,
                   batchProgress, lastSaveDir, uiVars, procVars, nextId, nStarted, nCancels,
                   previewIndex>>

\* the service pushes the cancellation marker while no socket is open: with no
\* handler to receive it, the event is lost
wsLost ==
    /\ chan.st = "closed"
    /\ markers > 0
    /\ markers' = markers - 1
    /\ last' = Other
    /\ UNCHANGED <<files, words, configWords, globalStatus, progress, message,
                   batchProgress, lastSaveDir, uiVars, runs, sels, decs, timers,
                   cancelInFlight, nextId, nStarted, nCancels, chan, previewIndex>>

\* ---------------------------------------------------------------- Preview
\* PDFPreview: the previous button, rendered with more than one file and disabled
\* at the first: setPreviewIndex(i => Math.max(0, i - 1))
onPrev ==
    /\ Len(files) > 1
    /\ previewIndex # 0
    /\ previewIndex' = IF previewIndex - 1 > 0 THEN previewIndex - 1 ELSE 0
    /\ last' = Other
    /\ UNCHANGED <<files, words, configWords, globalStatus, progress, message,
                   batchProgress, lastSaveDir, uiVars, procVars, nextId, nStarted, nCancels,
                   chan>>

\* PDFPreview: the next button, rendered with more than one file and disabled at
\* the last: setPreviewIndex(i => Math.min(files.length - 1, i + 1))
onNext ==
    /\ Len(files) > 1
    /\ previewIndex # Len(files) - 1
    /\ previewIndex' = IF previewIndex + 1 < Len(files) - 1 THEN previewIndex + 1
                       ELSE Len(files) - 1
    /\ last' = Other
    /\ UNCHANGED <<files, words, configWords, globalStatus, progress, message,
                   batchProgress, lastSaveDir, uiVars, procVars, nextId, nStarted, nCancels,
                   chan>>

\* ---------------------------------------------------------------- specification
Percentages == {100}
SaveDirs == {TRUE}        \* the service answers with a save_dir

Next ==
    \/ \E w \in Terms : onAddWord(w)
    \/ \E index \in 1..MaxWords : onRemoveWord(index)
    \/ onClearWords
    \/ \E n \in 1..MaxBatch : nextId + n - 1 <= MaxIds /\ handleFilesSelect(n)
    \/ \E s \in 1..MaxIds, res \in {"plain", "enc", "auto", "fail"} : checkEncryption(s, res)
    \/ \E s \in 1..MaxIds, ok \in BOOLEAN : autoDecryptReturn(s, ok)
    \/ Len(decs) < MaxDecrypts /\ handleDecryptSubmit
    \/ \E d \in 1..MaxDecrypts, ok \in BOOLEAN : decryptReturn(d, ok)
    \/ \E id \in Ids : nextPromptTimer(id)
    \/ onClose
    \/ onStart
    \/ \E r \in 1..MaxRuns, ok \in BOOLEAN, saveDir \in SaveDirs : redactReturn(r, ok, saveDir)
    \/ handleCancel
    \/ \E ok \in BOOLEAN : cancelReturn(ok)
    \/ wsCancelled
    \/ \E p \in Percentages : wsProgress(p)
    \/ onRetry
    \/ onClearFiles

Spec == Init /\ [][Next]_vars

\* The session of unencrypted files with a progress channel that can be lost:
\* file submission, the batch run, its cancellation, the output actions of a
\* finished batch and the channel's connection.  Every process request returns
\* and every scheduled reconnect fires.
NextLive ==
    \/ \E n \in 1..MaxBatch : nextId + n - 1 <= MaxIds /\ handleFilesSelect(n)
    \/ \E s \in 1..MaxIds, res \in {"plain", "fail"} : checkEncryption(s, res)
    \/ onStart
    \/ \E r \in 1..MaxRuns, ok \in BOOLEAN, saveDir \in SaveDirs : redactReturn(r, ok, saveDir)
    \/ handleCancel
    \/ \E ok \in BOOLEAN : cancelReturn(ok)
    \/ wsCancelled
    \/ \E p \in Percentages : wsProgress(p)
    \/ onRetry
    \/ onClearFiles
    \/ handleOpenFolder
    \/ handleSendEmail
    \/ wsOnError
    \/ wsOnClose
    \/ connect
    \/ wsLost

LiveSpec ==
    /\ Init
    /\ [][NextLive]_vars
    /\ \A r \in 1..MaxRuns :
          WF_vars(\E ok \in BOOLEAN, saveDir \in SaveDirs : redactReturn(r, ok, saveDir))
    /\ WF_vars(chan.st = "closing" /\ wsOnClose)
    /\ WF_vars(connect)

\* the Encryption Resolver alone, with one more file and one more answer in flight
NextResolver ==
    \/ \E n \in 1..MaxIdsWide : nextId + n - 1 <= MaxIdsWide /\ handleFilesSelect(n)
    \/ \E s \in 1..MaxIdsWide, res \in {"plain", "enc", "auto", "fail"} : checkEncryption(s, res)
    \/ \E s \in 1..MaxIdsWide, ok \in BOOLEAN : autoDecryptReturn(s, ok)
    \/ Len(decs) < MaxDecryptsWide /\ handleDecryptSubmit
    \/ \E d \in 1..MaxDecryptsWide, ok \in BOOLEAN : decryptReturn(d, ok)
    \/ \E id \in Ids : nextPromptTimer(id)
    \/ onClose
    \/ onClearFiles

ResolverSpec == Init /\ [][NextResolver]_vars

\* file submission, registry clear and preview navigation
NextPreview ==
    \/ \E n \in 1..MaxIdsWide : nextId + n - 1 <= MaxIdsWide /\ handleFilesSelect(n)
    \/ \E s \in 1..MaxIdsWide, res \in {"plain", "enc", "fail"} : checkEncryption(s, res)
    \/ onClose
    \/ onClearFiles
    \/ onPrev
    \/ onNext

PreviewSpec == Init /\ [][NextPreview]_vars

\* ================================================================ properties
\* position of a record in a captured registry, and in the registry
SnapPos(snap, id) == CHOOSE k \in DOMAIN snap : snap[k].id = id
FilePos(id) == CHOOSE k \in DOMAIN files : files[k].id = id

\* the record whose process request run r is waiting for
InFlightId(run) == run.snap[run.i].id

\* this step issues a process request for id: in the new state a run waits for
\* id at a position it did not wait at before
IssuedNow(id) ==
    \E r2 \in DOMAIN runs' :
        /\ InFlightId(runs'[r2]) = id
        /\ \A r \in DOMAIN runs : runs[r].no = runs'[r2].no => runs[r].i # runs'[r2].i

\* the check said encrypted with no auto_password, and no decrypt has succeeded
NeedsPassword(f) == f.chk = "enc" /\ ~f.dec

Terminal == {"done", "error"}

\* C1: in every reachable state at most one process request is in flight
\* (every run in `runs` is suspended at the fetch of exactly one request).
C1_AtMostOneInFlight == Len(runs) <= 1

\* C2: within one run the requests are issued in registry insertion order, and
\* each request has returned before the next one is issued: the ids a run has
\* issued so far appear at increasing positions of the registry it captured (and
\* of the registry itself, for the records still in it), and all of them but the
\* latest have returned.
C2_IssuedInRegistryOrder ==
    \A r \in DOMAIN runs :
        LET run == runs[r] IN
        /\ run.ret = Len(run.issued) - 1
        /\ \A a, b \in DOMAIN run.issued :
              a < b =>
                /\ SnapPos(run.snap, run.issued[a]) < SnapPos(run.snap, run.issued[b])
                /\ (HasId(files, run.issued[a]) /\ HasId(files, run.issued[b]))
                      => FilePos(run.issued[a]) < FilePos(run.issued[b])

\* a run that has issued its second request
C2_Witness == \E r \in DOMAIN runs : Len(runs[r].issued) >= 2 /\ runs[r].ret >= 1

\* C3: a start action taken while some record is encrypted, or the term list is
\* empty, or the registry is empty changes nothing: no run begins, no request
\* is issued, globalStatus and every record stay as they were.
StartBlocked == AnyEncrypted(files) \/ Len(words) = 0 \/ Len(files) = 0

C3_BlockedStartIsNoOp ==
    [][(last'.op = "onStart" /\ StartBlocked)
          => /\ files' = files
             /\ globalStatus' = globalStatus
             /\ runs' = runs
             /\ nStarted' = nStarted]_vars

\* Start was pressed while a record was encrypted (terms present), and refused
C3_Witness ==
    /\ last.op = "onStart"
    /\ ~last.ok
    /\ AnyEncrypted(files)
    /\ Len(words) > 0

\* C4: a batch run starts only when globalStatus = idle and no earlier run's loop
\* is still going.
C4_StartOnlyWhenIdle ==
    [][nStarted' > nStarted => (globalStatus = "idle" /\ Len(runs) = 0)]_vars

\* C5: when a run has just finished (its loop ended and set globalStatus = done),
\* every record of the registry is done or error.
C5_AllTerminalAfterRun ==
    last.fin => \A k \in DOMAIN files : files[k].status \in Terminal

\* C6: a record whose check reported encrypted with no autoPassword, and for which
\* no decrypt has succeeded, never has status pending and no process request is
\* issued for it.
C6_EncryptedNeverPendingNorSent ==
    [][\A k \in DOMAIN files' :
          NeedsPassword(files'[k])
              => (files'[k].status # "pending" /\ ~IssuedNow(files'[k].id))]_vars

\* C7: when a process request that was in flight while a cancel was requested
\* returns success, its record becomes done with the output location recorded;
\* and no step of the cancel request or of the cancellation marker changes any
\* record (so neither takes that record out of done).
C7_DoneDespiteCancel ==
    [][/\ (last'.op = "redactReturn" /\ last'.ok /\ last'.cancelled
                /\ HasId(files', last'.id))
            => (ItemOf(files', last'.id).status = "done" /\ ItemOf(files', last'.id).out)
       /\ (nCancels' # nCancels \/ cancelInFlight' # cancelInFlight \/ markers' # markers)
            => files' = files]_vars

\* a request returned success after a cancel was requested during it
C7_Witness ==
    /\ last.op = "redactReturn"
    /\ last.ok
    /\ last.cancelled
    /\ HasId(files, last.id)
    /\ ItemOf(files, last.id).status = "done"
    /\ globalStatus \in {"cancelling", "idle", "done"}

\* C8: when a process request fails, its record (if still in the registry)
\* becomes error; no other record changes, except that the next eligible record
\* of the run is marked uploading as its request is issued; the run goes on with
\* the next eligible record and ends only when there is none; and no run ever
\* skips an eligible record.
NoneSkipped ==
    \A r \in DOMAIN runs :
        LET run == runs[r]
            E == {j \in 1..run.i : run.snap[j].status # "error"} IN
        /\ Len(run.issued) = Cardinality(E)
        /\ \A j \in E : \E a \in DOMAIN run.issued : run.issued[a] = run.snap[j].id

C8_FailureIsContained ==
    [][(last'.op = "redactReturn" /\ ~last'.ok)
          => /\ DOMAIN files' = DOMAIN files
             /\ \A k \in DOMAIN files :
                   IF files[k].id = last'.id
                   THEN files'[k].status = "error" /\ files'[k].err
                   ELSE \/ files'[k] = files[k]
                        \/ /\ files'[k] = [files[k] EXCEPT !.status = "uploading"]
                           /\ IssuedNow(files[k].id)
             /\ \A r \in DOMAIN runs :
                   runs[r].no = last'.run =>
                     LET run == runs[r]
                         Later == {j \in (run.i + 1)..Len(run.snap) :
                                      run.snap[j].status # "error"} IN
                     IF Later = {}
                     THEN last'.fin
                     ELSE /\ ~last'.fin
                          /\ IssuedNow(run.snap[Min(Later)].id)
             /\ NoneSkipped']_vars

\* a request failed and the run went on to the next record
C8_Witness ==
    /\ last.op = "redactReturn"
    /\ ~last.ok
    /\ ~last.fin
    /\ \E r \in DOMAIN runs : runs[r].no = last.run /\ Len(runs[r].issued) >= 2
    /\ HasId(files, last.id) /\ ItemOf(files, last.id).status = "error"

\* C9: once a record is done or error its status never changes while it is in the
\* registry.
C9_TerminalIsFinal ==
    [][\A k \in DOMAIN files :
          (files[k].status \in Terminal /\ HasId(files', files[k].id))
              => ItemOf(files', files[k].id).status = files[k].status]_vars

\* C10: a record enters uploading only from pending or decrypted and only as the
\* batch loop issues its request; no request is issued for an encrypted record,
\* and no request is in flight for a record the check has reported encrypted and
\* that was not decrypted.
C10_UploadingOnlyFromEligible ==
    [][/\ \A k \in DOMAIN files' :
             LET f == files'[k] IN
             /\ (f.status = "uploading" /\ HasId(files, f.id)
                      /\ ItemOf(files, f.id).status # "uploading")
                  => (ItemOf(files, f.id).status \in {"pending", "decrypted"}
                        /\ IssuedNow(f.id))
             /\ (IssuedNow(f.id) /\ HasId(files, f.id))
                  => ItemOf(files, f.id).status # "encrypted"
       /\ \A r \in DOMAIN runs' :
             HasId(files', InFlightId(runs'[r]))
                  => ~NeedsPassword(ItemOf(files', InFlightId(runs'[r])))]_vars

\* C11: in every reachable state, for every record, the output location
\* (tempDir/outputFilename) is set if and only if its status is done.
C11_OutputIffDone ==
    \A k \in DOMAIN files : files[k].out <=> (files[k].status = "done")

\* C12: in every reachable state, for every record, the error field is set if and
\* only if its status is error.
C12_ErrorIffError ==
    \A k \in DOMAIN files : files[k].err <=> (files[k].status = "error")

\* C13: when a check reports a record encrypted with no autoPassword while a
\* credential request is outstanding for another record, the outstanding request
\* (the record it names, the open prompt, its failure message) is left unchanged.
C13_FirstEncryptedWins ==
    [][\A k \in DOMAIN files :
          (/\ files[k].chk = "none"
           /\ HasId(files', files[k].id)
           /\ ItemOf(files', files[k].id).chk = "enc"
           /\ showPasswordModal
           /\ pendingFileId # NoId
           /\ pendingFileId # files[k].id)
              => /\ pendingFileId' = pendingFileId
                 /\ showPasswordModal' = showPasswordModal
                 /\ passwordError' = passwordError]_vars

\* C14: when the automatic decrypt attempt with a saved credential fails, no
\* failure message is set, the record's status is encrypted, and a credential
\* request is queued for it: a prompt is open (for it, or for a record it waits
\* behind) or its delayed prompt is scheduled.
C14_AutoFailureDemotes ==
    [][(last'.op = "autoDecryptReturn" /\ ~last'.ok /\ HasId(files', last'.id))
          => /\ passwordError' = passwordError
             /\ ItemOf(files', last'.id).status = "encrypted"
             /\ \/ (showPasswordModal' /\ pendingFileId' # NoId)
                \/ last'.id \in timers']_vars

\* C15: when an interactive decrypt attempt fails, no record changes (the
\* record's status, content and password stay as they were), the credential
\* request is left as it was, and the failure message is set; so a record that
\* was encrypted with the prompt open for it is still encrypted with the prompt
\* open for it, now showing the failure.
PromptOpenFor(id, modal, pend, fs) ==
    modal /\ pend = id /\ HasId(fs, id) /\ ItemOf(fs, id).status = "encrypted"

C15_InteractiveFailureKeepsPrompt ==
    [][(last'.op = "decryptReturn" /\ ~last'.ok)
          => /\ files' = files
             /\ showPasswordModal' = showPasswordModal
             /\ pendingFileId' = pendingFileId
             /\ passwordError'
             /\ PromptOpenFor(last'.id, showPasswordModal, pendingFileId, files)
                   => PromptOpenFor(last'.id, showPasswordModal', pendingFileId', files')]_vars

\* a wrong password was answered: the prompt is open for the same encrypted
\* record, with the failure message
C15_Witness ==
    /\ last.op = "decryptReturn"
    /\ ~last.ok
    /\ PromptOpenFor(last.id, showPasswordModal, pendingFileId, files)
    /\ ~ItemOf(files, last.id).pw
    /\ ~ItemOf(files, last.id).dec
    /\ passwordError

\* C16: a successful decrypt, automatic or interactive, changes only the
\* decrypted record (content replaced, password set, status = decrypted) and the
\* credential-request state: globalStatus, the batch state and every other
\* record are unchanged, whatever the batch is doing.
C16_DecryptSuccessFrame ==
    [][(last'.op \in {"decryptReturn", "autoDecryptReturn"} /\ last'.ok)
          => /\ globalStatus' = globalStatus
             /\ UNCHANGED <<words, configWords, progress, message, batchProgress,
                            lastSaveDir, runs, cancelInFlight, markers>>
             /\ DOMAIN files' = DOMAIN files
             /\ \A k \in DOMAIN files :
                   IF files[k].id = last'.id
                   THEN files'[k] = [files[k] EXCEPT !.status = "decrypted",
                                                     !.pw = TRUE, !.dec = TRUE]
                   ELSE files'[k] = files[k]]_vars

\* a decrypt succeeded while a batch run was waiting for a process request, with
\* another record in the registry
C16_Witness ==
    /\ last.op \in {"decryptReturn", "autoDecryptReturn"}
    /\ last.ok
    /\ globalStatus = "processing"
    /\ Len(runs) > 0
    /\ Len(files) = 2
    /\ HasId(files, last.id)
    /\ ItemOf(files, last.id).status = "decrypted"

\* C17: on receipt of the cancellation marker globalStatus becomes idle and the
\* progress display is reset (percentage 0, empty message): the marker is not
\* applied as a percentage/message update.
C17_MarkerResetsDisplay ==
    [][(last'.op = "wsCancelled" \/ markers' < markers)
          => /\ globalStatus' = "idle"
             /\ progress' = 0
             /\ message' = NoText]_vars

\* the marker of a cancel arrived while the run was still waiting for a request
C17_Witness ==
    /\ last.op = "wsCancelled"
    /\ nCancels > 0
    /\ Len(runs) > 0
    /\ globalStatus = "idle"
    /\ progress = 0
    /\ message = NoText

\* a channel event was handled in this step
ChannelEvent == last'.op \in {"wsProgress", "wsCancelled"}

\* this step moves the record with this id to status st
MovesTo(id, st) ==
    /\ HasId(files, id)
    /\ HasId(files', id)
    /\ ItemOf(files, id).status # st
    /\ ItemOf(files', id).status = st

\* no channel event changes a record, and a percentage event leaves globalStatus
\* alone
ChannelLeavesRecords ==
    /\ ChannelEvent => files' = files
    /\ last'.op = "wsProgress" => globalStatus' = globalStatus

\* C18 (as stated): no progress-channel event changes any record's status, output
\* location or error, and a percentage-100 event never sets globalStatus to done;
\* only the result of the process request moves a record to done or to error.
C18_OnlyProcessResultDecides ==
    [][/\ ChannelLeavesRecords
       /\ files' # files => \A id \in Ids :
             /\ MovesTo(id, "done")
                   => (last'.op = "redactReturn" /\ last'.ok /\ last'.id = id)
             /\ MovesTo(id, "error")
                   => (last'.op = "redactReturn" /\ ~last'.ok /\ last'.id = id)]_vars

\* C18 (amended): no progress-channel event changes any record's status, output
\* location or error, and a percentage-100 event never sets globalStatus to done;
\* only the result of the process request moves a record to done, and only that
\* result or a failed encryption check of the record moves it to error.
C18_ChannelNeverDecides ==
    [][/\ ChannelLeavesRecords
       /\ files' # files => \A id \in Ids :
             /\ MovesTo(id, "done")
                   => (last'.op = "redactReturn" /\ last'.ok /\ last'.id = id)
             /\ MovesTo(id, "error")
                   => \/ (last'.op = "redactReturn" /\ ~last'.ok /\ last'.id = id)
                      \/ (ItemOf(files, id).chk = "none"
                            /\ ItemOf(files', id).chk = "fail")]_vars

\* percentage 100 arrived while a record's process request was in flight: the
\* record is still uploading and the run still processing
C18_Witness ==
    /\ last.op = "wsProgress"
    /\ progress = 100
    /\ globalStatus = "processing"
    /\ \E r \in DOMAIN runs :
          /\ HasId(files, InFlightId(runs[r]))
          /\ ItemOf(files, InFlightId(runs[r])).status = "uploading"

\* C19: a channel event (the cancellation marker included) delivered while no
\* batch run is active (globalStatus is idle or done and no process request is
\* in flight) leaves globalStatus and the registry unchanged.
C19_StrayEventIsNoOp ==
    [][(ChannelEvent /\ globalStatus \in {"idle", "done"} /\ Len(runs) = 0)
          => (globalStatus' = globalStatus /\ files' = files)]_vars

\* C20: once a cancel request has been accepted (globalStatus = cancelling, the
\* cancel request has returned), no event other than the receipt of the
\* cancellation marker moves globalStatus out of cancelling.
C20_CancellingUntilMarker ==
    [][(globalStatus = "cancelling" /\ cancelInFlight = 0 /\ last'.op # "wsCancelled")
          => globalStatus' = "cancelling"]_vars

\* C21: a cancel request made while globalStatus = processing sets globalStatus
\* to cancelling, and the only step that takes globalStatus from cancelling to
\* idle is the receipt of the cancellation marker (the return of the cancel
\* request, failed or not, does not).
C21_OnlyMarkerReturnsToIdle ==
    [][/\ nCancels' > nCancels
            => (globalStatus = "processing" /\ globalStatus' = "cancelling")
       /\ (globalStatus = "cancelling" /\ globalStatus' = "idle")
            => last'.op = "wsCancelled"]_vars

\* C22: every started batch run eventually ends, provided every process request
\* returns, and the step that ends it leaves globalStatus = done and the batch
\* progress indicator cleared, whether or not a cancel was requested or the
\* cancellation marker was received during the run.
RunActive(n) == \E r \in DOMAIN runs : runs[r].no = n
RunEnded(n) == last.fin /\ last.run = n /\ globalStatus = "done" /\ batchProgress = 0

C22_RunEndsDone ==
    /\ [](last.fin => (globalStatus = "done" /\ batchProgress = 0))
    /\ \A n \in 1..MaxRuns : RunActive(n) ~> RunEnded(n)

\* a run has ended with done although a cancel was requested during its last
\* request and the cancel's marker was received before the request returned
C22_Witness ==
    /\ last.op = "redactReturn"
    /\ last.fin
    /\ last.cancelled
    /\ nCancels > 0 /\ cancelInFlight = 0 /\ markers = 0
    /\ globalStatus = "done"
    /\ batchProgress = 0

\* the only file submitted so far was reported encrypted with an autoPassword
OneFileAuto == nextId = 2 /\ Len(files) = 1 /\ files[1].chk = "auto"

\* no credential request is open, scheduled or being answered, no failure shown
NoRequest ==
    /\ ~showPasswordModal
    /\ pendingFileId = NoId
    /\ ~passwordError
    /\ timers = {}
    /\ decs = <<>>

\* in the scenario no credential request ever exists, and the successful
\* automatic decrypt leaves the record in status st without touching the prompt
AutoDecryptSilent(st) ==
    /\ OneFileAuto' => NoRequest'
    /\ (last'.op = "autoDecryptReturn" /\ last'.ok /\ HasId(files', last'.id))
          => /\ ItemOf(files', last'.id).status = st
             /\ UNCHANGED <<showPasswordModal, pendingFileId, passwordError>>

\* C23 (as stated): one encrypted file with a saved matching password: when the
\* check returns an autoPassword and the decrypt succeeds, no credential request
\* is ever opened (no prompt, no error) and the record reaches status pending.
C23_AutoDecryptReachesPending == [][AutoDecryptSilent("pending")]_vars

\* C23 (amended): as above, and the record reaches the batch-eligible status
\* decrypted.
C23_AutoDecryptReachesDecrypted == [][AutoDecryptSilent("decrypted")]_vars

\* the file was decrypted with the saved password: no prompt, and Start is enabled
C23_Witness ==
    /\ OneFileAuto
    /\ last.op = "autoDecryptReturn"
    /\ last.ok
    /\ files[1].status = "decrypted"
    /\ files[1].pw
    /\ NoRequest
    /\ canStart

\* the only file submitted so far was reported encrypted with no saved match
OneFileEnc == nextId = 2 /\ Len(files) = 1 /\ files[1].chk = "enc"

\* C24: one encrypted file, no saved match: when an interactive password is
\* refused the prompt (if the user has not closed it) is still open for the
\* file, with the error shown; when an interactive password is accepted the
\* record becomes decrypted, the prompt closes, and the error message and the
\* outstanding request are cleared (and no further request is scheduled).
C24_WrongThenRightPassword ==
    [][(OneFileEnc /\ last'.op = "decryptReturn")
          => IF last'.ok
             THEN /\ files'[1].status = "decrypted"
                  /\ files'[1].pw
                  /\ ~showPasswordModal'
                  /\ pendingFileId' = NoId
                  /\ ~passwordError'
                  /\ ~decrypting'
                  /\ timers' = {}
             ELSE /\ passwordError'
                  /\ ~decrypting'
                  /\ files'[1].status = files[1].status
                  /\ ~files'[1].pw
                  /\ (showPasswordModal /\ pendingFileId = 1)
                        => (showPasswordModal' /\ pendingFileId' = 1)]_vars

\* the interactive password was accepted: the file is decrypted, the prompt is
\* closed and nothing of the request is left
C24_Witness ==
    /\ OneFileEnc
    /\ last.op = "decryptReturn"
    /\ last.ok
    /\ last.id = 1
    /\ files[1].status = "decrypted"
    /\ files[1].pw
    /\ NoRequest

\* two files were submitted together; the first was reported not encrypted, the
\* second encrypted with no saved match
TwoFilesSecondEnc ==
    nextId = 3 /\ Len(files) = 2 /\ files[1].chk = "plain" /\ files[2].chk = "enc"

\* this step notes the answer res of the check of record id
CheckedNow(id, res) ==
    /\ HasId(files, id) /\ ItemOf(files, id).chk = "none"
    /\ HasId(files', id) /\ ItemOf(files', id).chk = res

\* this step opens a credential request for record id: the check opens the
\* prompt for it, or the delayed prompt scheduled for it fires
OpenedNow(id) ==
    \/ id \in timers /\ id \notin timers'
    \/ /\ showPasswordModal' /\ pendingFileId' = id
       /\ ~(showPasswordModal /\ pendingFileId = id)

EarliestEncrypted(fs) ==
    LET S == {k \in DOMAIN fs : fs[k].status = "encrypted"} IN
    IF S = {} THEN NoId ELSE fs[Min(S)].id

\* C26: after a successful interactive decrypt the next request is scheduled for
\* the earliest record in registry order that is still encrypted, and none is
\* scheduled when no record is encrypted; a request is never opened for a
\* record that has been decrypted.
C26_NextPromptInRegistryOrder ==
    [][/\ (last'.op = "decryptReturn" /\ last'.ok)
             => IF EarliestEncrypted(files') = NoId
                THEN timers' = timers
                ELSE timers' = timers \cup {EarliestEncrypted(files')}
       /\ \A id \in Ids :
             (OpenedNow(id) /\ HasId(files, id)) => ~ItemOf(files, id).dec]_vars

\* the check or a decrypt of record id is in flight
ResolverBusy(id) ==
    \/ \E s \in DOMAIN sels : sels[s].items[sels[s].k] = id
    \/ \E d \in DOMAIN decs : decs[d].id = id

\* this step handles the answer of the check or of a decrypt of record id
ResolverResultNow(id) ==
    \/ \E res \in {"plain", "enc", "auto", "fail"} : CheckedNow(id, res)
    \/ last'.op \in {"autoDecryptReturn", "decryptReturn"} /\ last'.id = id

BatchStatuses == {"uploading", "done", "error"}

\* C27: a process request is never issued for a record whose check or decrypt
\* is in flight, and the answer of a check or decrypt never changes the status
\* of a record that is uploading, done or error.
C27_ResolverAndBatchDisjoint ==
    [][\A id \in Ids :
          /\ IssuedNow(id) => ~ResolverBusy(id)
          /\ (ResolverResultNow(id) /\ HasId(files, id) /\ HasId(files', id)
                 /\ ItemOf(files, id).status \in BatchStatuses)
                => ItemOf(files', id).status = ItemOf(files, id).status]_vars

\* nothing of the program is in flight or scheduled: every further step is an
\* action of the user or of the service
Quiescent ==
    /\ runs = <<>> /\ sels = <<>> /\ decs = <<>>
    /\ timers = {}
    /\ cancelInFlight = 0 /\ markers = 0
    /\ chan.st = "open" /\ ~chan.timer

\* C28: after a completed batch that saved an output, once folder reveal or
\* email dispatch has been invoked and nothing is left in flight or scheduled,
\* the registry is empty and the redaction-term list holds the configured
\* defaults.
C28_RevealAndEmailReset ==
    (last.op \in {"handleOpenFolder", "handleSendEmail"} /\ lastSaveDir /\ Quiescent)
        => (files = <<>> /\ words = configWords)

\* C29: the channel is always opened under the one clientId, which every process
\* request carries too; no channel event is handled while the channel is closed
\* and the reconnect itself applies nothing (no event is replayed); and after a
\* loss of the connection (close, or error followed by close) the channel is
\* eventually open again.
C29_ReopensWithSameClientId ==
    /\ [](chan.id = clientId /\ \A r \in DOMAIN runs : runs[r].client = chan.id)
    /\ [][/\ chan.st = "closed" => last'.op \notin {"wsCancelled", "wsProgress"}
          /\ last'.op = "connect"
                => UNCHANGED <<files, words, configWords, globalStatus, progress, message,
                               batchProgress, lastSaveDir, uiVars, procVars>>]_vars
    /\ (chan.st # "open") ~> (chan.st = "open")

\* the channel was reopened during a run, after the cancellation marker of that
\* run was sent into the closed connection and lost
C29_Witness ==
    /\ last.op = "connect"
    /\ chan.st = "open"
    /\ chan.id = clientId
    /\ Len(runs) > 0
    /\ nCancels > 0
    /\ cancelInFlight = 0
    /\ markers = 0
    /\ globalStatus = "cancelling"

\* the only file submitted so far was reported not encrypted
OneFilePlain == nextId = 2 /\ Len(files) = 1 /\ files[1].chk = "plain"

\* C30: one unencrypted file and a non-empty term list: once the check has
\* reported not encrypted and a batch was started, the successful answer of the
\* process request ends the run and leaves the record done with its output
\* location recorded and globalStatus = done.
C30_PlainFileRunsToDone ==
    [][(OneFilePlain /\ last'.op = "redactReturn" /\ last'.ok)
          => /\ last'.fin
             /\ last'.id = 1
             /\ files'[1].status = "done"
             /\ files'[1].out
             /\ globalStatus' = "done"]_vars

\* the first and only run of the session has ended with the file redacted; no
\* cancel was made
C30_Witness ==
    /\ OneFilePlain
    /\ last.op = "redactReturn"
    /\ last.ok
    /\ last.fin
    /\ nStarted = 1
    /\ nCancels = 0
    /\ Len(words) > 0
    /\ files[1].status = "done"
    /\ files[1].out
    /\ lastSaveDir
    /\ globalStatus = "done"

\* the selection that was waiting for the check of id goes on with its next
\* file, if it has one
LoopGoesOn(id) ==
    \A s \in DOMAIN sels :
        (sels[s].items[sels[s].k] = id /\ sels[s].k < Len(sels[s].items))
            => \E s2 \in DOMAIN sels' :
                  /\ sels'[s2].items = sels[s].items
                  /\ sels'[s2].k = sels[s].k + 1
                  /\ sels'[s2].pc = "check"

BatchStep == last'.op \in {"onStart", "redactReturn"}

\* C32: a record whose status is error is never issued a process request, and a
\* step of a batch run leaves its status error and its error reason as they are.
C32_ErrorRecordsAreSkipped ==
    [][\A k \in DOMAIN files :
          files[k].status = "error"
             => /\ ~IssuedNow(files[k].id)
                /\ (BatchStep /\ HasId(files', files[k].id))
                      => /\ ItemOf(files', files[k].id).status = "error"
                         /\ ItemOf(files', files[k].id).err]_vars

\* C33: a run during which a cancel has been requested issues no further process
\* request: it stays at the request it was waiting for, or ends.
C33_CancelledRunIssuesNothing ==
    [][\A r \in DOMAIN runs :
          runs[r].cancelled
             => \A r2 \in DOMAIN runs' :
                   runs'[r2].no = runs[r].no
                      => /\ runs'[r2].i = runs[r].i
                         /\ runs'[r2].issued = runs[r].issued]_vars

\* C34: all process requests issued by one run carry the same batch_id, the same
\* client_id and the same term list, the one the run was started with, whatever
\* the term list and the registry have become meanwhile.
C34_RequestsOfARunAgree ==
    \A r \in DOMAIN runs :
        \A a \in DOMAIN runs[r].reqs :
            /\ runs[r].reqs[a].batch_id = runs[r].reqs[1].batch_id
            /\ runs[r].reqs[a].client_id = clientId
            /\ runs[r].reqs[a].words = runs[r].words
            /\ runs[r].reqs[a].file = runs[r].issued[a]

\* a run has issued its second request after the term list was changed and the
\* registry was cleared
C34_Witness ==
    \E r \in DOMAIN runs :
        /\ Len(runs[r].reqs) >= 2
        /\ words # runs[r].words
        /\ files = <<>>

\* C35: whenever a process request is in flight, globalStatus is processing or
\* cancelling, that is, the clear, file-submission and term-edit controls are
\* locked.
C35_LockedWhileRunning == Len(runs) > 0 => isLocked

\* C36: whenever a credential request is outstanding (the prompt is shown for a
\* file id), that id belongs to a record of the registry whose status is
\* encrypted.
C36_RequestNamesEncryptedRecord ==
    (showPasswordModal /\ pendingFileId # NoId)
        => PromptOpenFor(pendingFileId, showPasswordModal, pendingFileId, files)

\* something is open, in flight or scheduled that can still lead to a prompt
\* without a new file submission: the prompt itself, a check loop, an
\* interactive decrypt, or the timer of the next prompt
RequestMayStillOpen ==
    showPasswordModal \/ sels # <<>> \/ decs # <<>> \/ timers # {}

\* C37: if a record is encrypted, a credential request is outstanding, or what
\* can open one without a new file submission is still in flight or scheduled.
C37_EncryptedIsPrompted == AnyEncrypted(files) => RequestMayStillOpen

\* C38: whenever the registry is non-empty, the preview index is a position of
\* the registry (0 <= previewIndex < number of records).
C38_PreviewIndexValid == Len(files) > 0 => previewIndex \in 0..(Len(files) - 1)

\* C39: in every reachable state the password prompt is shown if and only if a
\* pending file id is set.
C39_ModalIffPendingFileId == showPasswordModal <=> (pendingFileId # NoId)

\* the delayed prompt has opened for the first file after the second was
\* decrypted through its own prompt
C39_Witness ==
    /\ showPasswordModal
    /\ pendingFileId = 1
    /\ Len(files) = 2
    /\ files[2].dec
    /\ files[1].status = "encrypted"
    /\ timers = {}

====
